---- MODULE Spec2Model ----
(***************************************************************************)
(* Payslip payout extraction (pdfextracter.py).                            *)
(*                                                                         *)
(* A string is a sequence of characters; a character is a one-character    *)
(* string, except the non-ASCII ones, which carry an ASCII name:           *)
(*   "U-uml" = U+00DC, "u-uml" = U+00FC, "O-uml" = U+00D6, "o-uml" = U+00F6, *)
(*   "A-uml" = U+00C4, "a-uml" = U+00E4, "eszett" = U+00DF, "euro" = U+20AC. *)
(* A float amount is held as its count of cents (an integer).              *)
(***************************************************************************)
EXTENDS Integers, Sequences, FiniteSets, TLC

VARIABLES text, lines, norm, candidates, result, pc

\* pick_latest_pdf: the folder and the prefixes it is given, its loop position,
\* its running best and what it returns or raises
VARIABLES folder, allowed_prefixes, scan, best_dt, best_path, picked

\* refresh_balance_from_pdf: the content of save.json, its content when the call
\* began, and the returned (ok, message)
VARIABLES save, save0, outcome, calls

locateVars == <<text, lines, norm, candidates, result>>
pickVars == <<folder, allowed_prefixes, scan, best_dt, best_path, picked>>
refreshVars == <<save, save0, outcome, calls>>

vars == <<text, lines, norm, candidates, result, pc,
          folder, allowed_prefixes, scan, best_dt, best_path, picked, save, save0, outcome, calls>>

(***************************************************************************)
(* Bounds of the model.                                                    *)
(***************************************************************************)
MaxLines == 3
MaxTokLen == 6
MaxFiles == 3
MaxNameLen == 6
MaxRefreshLines == 2
MaxNormLen == 3
MaxWindowLines == 22
MaxCalls == 2

(***************************************************************************)
(* Characters and the string primitives of the Python runtime.             *)
(***************************************************************************)
Digits == {"0", "1", "2", "3", "4", "5", "6", "7", "8", "9"}

Whitespace == {" ", "\t"}

UpperChars == <<"A", "B", "C", "D", "E", "F", "G", "H", "I", "J", "K", "L", "M",
                "N", "O", "P", "Q", "R", "S", "T", "U", "V", "W", "X", "Y", "Z",
                "U-uml", "O-uml", "A-uml">>

LowerChars == <<"a", "b", "c", "d", "e", "f", "g", "h", "i", "j", "k", "l", "m",
                "n", "o", "p", "q", "r", "s", "t", "u", "v", "w", "x", "y", "z",
                "u-uml", "o-uml", "a-uml">>

\* str.lower() on one character
LowerChar(c) ==
    IF \E k \in 1..Len(UpperChars) : UpperChars[k] = c
    THEN LowerChars[CHOOSE k \in 1..Len(UpperChars) : UpperChars[k] = c]
    ELSE c

\* str.lower()
Lower(s) == [k \in 1..Len(s) |-> LowerChar(s[k])]

\* str.replace(c, r) for a one-character pattern c
RECURSIVE Replace(_, _, _)
Replace(s, c, r) ==
    IF s = <<>> THEN <<>>
    ELSE (IF Head(s) = c THEN r ELSE <<Head(s)>>) \o Replace(Tail(s), c, r)

\* s[p:].startswith(pat), p counted from 1
StartsAt(s, pat, p) ==
    /\ p + Len(pat) - 1 <= Len(s)
    /\ \A k \in 1..Len(pat) : s[p + k - 1] = pat[k]

\* pat in s
Contains(s, pat) == \E p \in 1..(Len(s) - Len(pat) + 1) : StartsAt(s, pat, p)

\* str.strip()
RECURSIVE LStrip(_)
LStrip(s) ==
    IF s # <<>> /\ Head(s) \in Whitespace THEN LStrip(Tail(s)) ELSE s

RECURSIVE RStrip(_)
RStrip(s) ==
    IF s # <<>> /\ s[Len(s)] \in Whitespace
    THEN RStrip(SubSeq(s, 1, Len(s) - 1)) ELSE s

Strip(s) == RStrip(LStrip(s))

Range(q) == {q[k] : k \in 1..Len(q)}

(***************************************************************************)
(* normalize                                                               *)
(***************************************************************************)
\* the rewrites applied before lowercasing
normalize_lower_last(s) ==
    Lower(Replace(Replace(Replace(Replace(s,
        "u-uml", <<"u", "e">>),
        "o-uml", <<"o", "e">>),
        "a-uml", <<"a", "e">>),
        "eszett", <<"s", "s">>))

normalize(s) ==
    Replace(Replace(Replace(Replace(Lower(s),
        "u-uml", <<"u", "e">>),
        "o-uml", <<"o", "e">>),
        "a-uml", <<"a", "e">>),
        "eszett", <<"s", "s">>)

(***************************************************************************)
(* AMOUNT_RE = (\d+(?:\.\d{3})*,\d{2}) and AMOUNT_RE.search                *)
(***************************************************************************)
IsDigitAt(s, p) == p >= 1 /\ p <= Len(s) /\ s[p] \in Digits

\* length of the longest run of digits of s that starts at p
RECURSIVE DigitRun(_, _)
DigitRun(s, p) == IF IsDigitAt(s, p) THEN 1 + DigitRun(s, p + 1) ELSE 0

\* (?:\.\d{3}) repeated g times at p
GroupsAt(s, p, g) ==
    \A k \in 0..(g - 1) :
        /\ p + 4 * k + 3 <= Len(s)
        /\ s[p + 4 * k] = "."
        /\ IsDigitAt(s, p + 4 * k + 1)
        /\ IsDigitAt(s, p + 4 * k + 2)
        /\ IsDigitAt(s, p + 4 * k + 3)

\* ,\d{2} at p
DecimalsAt(s, p) ==
    /\ p + 2 <= Len(s)
    /\ s[p] = ","
    /\ IsDigitAt(s, p + 1)
    /\ IsDigitAt(s, p + 2)

\* the pattern matches at p with d leading digits and g groups
MatchOk(s, p, d, g) ==
    /\ GroupsAt(s, p + d, g)
    /\ DecimalsAt(s, p + d + 4 * g)

\* the matcher of the pattern with ,\d{1,2} in place of ,\d{2}
MatchLenAtOneDecimal(s, p) ==
    LET run == DigitRun(s, p)
        ways == {w \in (1..run) \X (0..(Len(s) \div 4)) :
                    /\ GroupsAt(s, p + w[1], w[2])
                    /\ p + w[1] + 4 * w[2] + 1 <= Len(s)
                    /\ s[p + w[1] + 4 * w[2]] = ","
                    /\ IsDigitAt(s, p + w[1] + 4 * w[2] + 1)}
    IN  IF ways = {} THEN 0
        ELSE LET w == CHOOSE w \in ways : \A v \in ways : v[1] <= w[1] /\ (v[1] = w[1] => v[2] <= w[2])
             IN  w[1] + 4 * w[2] + (IF IsDigitAt(s, p + w[1] + 4 * w[2] + 2) THEN 3 ELSE 2)

\* length of the match the backtracking matcher returns at p (0: none):
\* it tries the longest run of digits first, then the most groups
MatchLenAt(s, p) ==
    LET run == DigitRun(s, p)
        ways == {w \in (1..run) \X (0..(Len(s) \div 4)) : MatchOk(s, p, w[1], w[2])}
    IN  IF ways = {} THEN 0
        ELSE LET d == CHOOSE d \in 1..run :
                        /\ \E w \in ways : w[1] = d
                        /\ \A w \in ways : w[1] <= d
                 g == CHOOSE g \in 0..(Len(s) \div 4) :
                        /\ <<d, g>> \in ways
                        /\ \A w \in ways : w[1] = d => w[2] <= g
             IN  d + 4 * g + 3

NoMatch == [found |-> FALSE]

\* a search that returns the rightmost match instead of the leftmost
AMOUNT_RE_search_rightmost(ln) ==
    LET starts == {p \in 1..Len(ln) : MatchLenAt(ln, p) > 0}
    IN  IF starts = {} THEN NoMatch
        ELSE LET p == CHOOSE p \in starts : \A q \in starts : q <= p
             IN  [found |-> TRUE, start |-> p,
                  raw |-> SubSeq(ln, p, p + MatchLenAt(ln, p) - 1)]

\* AMOUNT_RE.search(ln): the leftmost position with a match; m.group(1)
AMOUNT_RE_search(ln) ==
    LET starts == {p \in 1..Len(ln) : MatchLenAt(ln, p) > 0}
    IN  IF starts = {} THEN NoMatch
        ELSE LET p == CHOOSE p \in starts : \A q \in starts : p <= q
             IN  [found |-> TRUE, start |-> p,
                  raw |-> SubSeq(ln, p, p + MatchLenAt(ln, p) - 1)]

(***************************************************************************)
(* de_amount_to_float                                                      *)
(***************************************************************************)
DigitVal(c) == CHOOSE v \in 0..9 : <<"0", "1", "2", "3", "4", "5", "6", "7", "8", "9">>[v + 1] = c

RECURSIVE DigitsToNat(_)
DigitsToNat(s) ==
    IF s = <<>> THEN 0
    ELSE 10 * DigitsToNat(SubSeq(s, 1, Len(s) - 1)) + DigitVal(s[Len(s)])

RECURSIVE Pow10(_)
Pow10(k) == IF k = 0 THEN 1 ELSE 10 * Pow10(k - 1)

\* float(s) of a decimal literal with at most two fraction digits, in cents
FloatCents(s) ==
    IF \E p \in 1..Len(s) : s[p] = "."
    THEN LET p == CHOOSE p \in 1..Len(s) : s[p] = "."
             frac == SubSeq(s, p + 1, Len(s))
         IN  DigitsToNat(SubSeq(s, 1, p - 1)) * 100
               + DigitsToNat(frac) * Pow10(2 - Len(frac))
    ELSE DigitsToNat(s) * 100

\* float() accepts s: digits with at most one ".", at least one digit
IsFloatLiteral(s) ==
    /\ \E k \in 1..Len(s) : s[k] \in Digits
    /\ \A k \in 1..Len(s) : s[k] \in Digits \cup {"."}
    /\ Cardinality({k \in 1..Len(s) : s[k] = "."}) <= 1

\* the two replacements applied in the other order: "," to "." first, then "." removed
de_amount_to_float_swapped(s) == FloatCents(Replace(Replace(s, ",", <<".">>), ".", <<>>))

\* float(s.replace(".", "").replace(",", "."))
de_amount_to_float(s) == FloatCents(Replace(Replace(s, ".", <<>>), ",", <<".">>))

(***************************************************************************)
(* find_payout_amount: scores, candidates, the three tiers, the pick       *)
(***************************************************************************)
WINDOW == 20
TIER1_BASE == 100
TIER1_BONUS == 20
TIER2_BASE == 80
TIER2_BONUS == 10
TIER3_BASE == 40
TIER3_BONUS == 10
NEXT_LINE_PENALTY == 5

KW_zahlungen == <<"z", "a", "h", "l", "u", "n", "g", "e", "n">>
KW_ueberweisung == <<"u", "e", "b", "e", "r", "w", "e", "i", "s", "u", "n", "g">>
KW_uberweisung_raw == <<"u-uml", "b", "e", "r", "w", "e", "i", "s", "u", "n", "g">>
KW_eur == <<"e", "u", "r">>
KW_euro_sign == <<"euro">>

payout_words ==
    << <<"a", "u", "s", "z", "a", "h", "l", "u", "n", "g", "s", "b", "e", "t", "r", "a", "g">>,
       <<"n", "e", "t", "t", "o">>,
       <<"a", "u", "s", "z", "a", "h", "l", "u", "n", "g">>,
       <<"a", "u", "s", "g", "e", "z", "a", "h", "l", "t">> >>

\* "zahlungen" in nln
IsZahlungen(nln) == Contains(nln, KW_zahlungen)

\* "ueberweisung" in n2 or "überweisung" in ln2.lower()
IsTransfer(n2, ln2) ==
    Contains(n2, KW_ueberweisung) \/ Contains(Lower(ln2), KW_uberweisung_raw)

\* any(w in nln for w in payout_words)
IsPayoutWord(nln) == \E k \in 1..Len(payout_words) : Contains(nln, payout_words[k])

\* a currency check that never sees a marker
HasCurrencyNever(n2, ln2) == FALSE

\* "eur" in n2 or the euro sign in ln2
HasCurrency(n2, ln2) == Contains(n2, KW_eur) \/ Contains(ln2, KW_euro_sign)

Tier1Score(n2, ln2) == TIER1_BASE + (IF HasCurrency(n2, ln2) THEN TIER1_BONUS ELSE 0)

Tier2Score(nln, ln) == TIER2_BASE + (IF HasCurrency(nln, ln) THEN TIER2_BONUS ELSE 0)

\* tier 3 scored with the constants of tier 2
Tier3ScoreAsTier2(nln, ln) == TIER2_BASE + (IF HasCurrency(nln, ln) THEN TIER2_BONUS ELSE 0)

Tier3Score(nln, ln) == TIER3_BASE + (IF HasCurrency(nln, ln) THEN TIER3_BONUS ELSE 0)

\* the next line scored like the hit line
NextLineScoreUnchanged(score) == score

NextLineScore(score) == score - NEXT_LINE_PENALTY

\* a candidate: (score, amount_float, raw_amount, matched_line)
Candidate(score, amt, raw, ln) ==
    [score |-> score, amount |-> amt, raw_amount |-> raw, line |-> ln]

\* add_candidate without the early return on "no match"
add_candidate_unguarded(cands, score, ln) ==
    LET m == AMOUNT_RE_search(ln)
    IN  IF ~m.found THEN Append(cands, Candidate(score, 0, <<>>, ln))
        ELSE Append(cands, Candidate(score, de_amount_to_float(m.raw), m.raw, ln))

\* add_candidate keeping the converted string instead of m.group(1)
add_candidate_raw_stripped(cands, score, ln) ==
    LET m == AMOUNT_RE_search(ln)
    IN  IF ~m.found THEN cands
        ELSE Append(cands, Candidate(score, de_amount_to_float(m.raw),
                                     Replace(m.raw, ".", <<>>), ln))

\* def add_candidate(score, ln)
add_candidate(cands, score, ln) ==
    LET m == AMOUNT_RE_search(ln)
    IN  IF ~m.found THEN cands
        ELSE Append(cands, Candidate(score, de_amount_to_float(m.raw), m.raw, ln))

\* a hit that forgets the line after it
HitWithNextOnlyOwn(cands, ls, score, j) == add_candidate(cands, score, ls[j])

\* the body of a tier-1 / tier-2 hit on line j: the line, then the next line
\* the following line's own currency marker adds a bonus to its score
HitWithNextReevaluated(cands, ls, score, j) ==
    LET own == add_candidate(cands, score, ls[j])
    IN  IF j + 1 <= Len(ls)
        THEN add_candidate(own,
                 IF HasCurrency(normalize(ls[j + 1]), ls[j + 1])
                 THEN NextLineScore(score) + TIER2_BONUS
                 ELSE NextLineScore(score),
                 ls[j + 1])
        ELSE own

HitWithNext(cands, ls, score, j) ==
    LET own == add_candidate(cands, score, ls[j])
    IN  IF j + 1 <= Len(ls) THEN add_candidate(own, NextLineScore(score), ls[j + 1])
        ELSE own

\* for j in range(i, min(i + 20, len(lines)))
RECURSIVE Tier1Window(_, _, _, _, _)
Tier1Window(cands, ls, ns, j, last) ==
    IF j > last THEN cands
    ELSE Tier1Window(
            IF IsTransfer(ns[j], ls[j])
            THEN HitWithNext(cands, ls, Tier1Score(ns[j], ls[j]), j)
            ELSE cands,
            ls, ns, j + 1, last)

Min(a, b) == IF a <= b THEN a ELSE b

\* a window that also takes the line at i + 20
WindowEndInclusive(i, n) == Min(i + WINDOW, n)

\* the last index of range(i, min(i + 20, len(lines)))
WindowEnd(i, n) == Min(i + WINDOW - 1, n)

\* 1) for i, nln in enumerate(norm): if "zahlungen" in nln: ...
RECURSIVE Tier1Loop(_, _, _, _)
Tier1Loop(cands, ls, ns, i) ==
    IF i > Len(ls) THEN cands
    ELSE Tier1Loop(
            IF IsZahlungen(ns[i])
            THEN Tier1Window(cands, ls, ns, i, WindowEnd(i, Len(ls)))
            ELSE cands,
            ls, ns, i + 1)

\* 2) explicit payout words anywhere
RECURSIVE Tier2Loop(_, _, _, _)
Tier2Loop(cands, ls, ns, i) ==
    IF i > Len(ls) THEN cands
    ELSE Tier2Loop(
            IF IsPayoutWord(ns[i])
            THEN HitWithNext(cands, ls, Tier2Score(ns[i], ls[i]), i)
            ELSE cands,
            ls, ns, i + 1)

\* 3) any transfer line anywhere
RECURSIVE Tier3Loop(_, _, _, _)
Tier3Loop(cands, ls, ns, i) ==
    IF i > Len(ls) THEN cands
    ELSE Tier3Loop(
            IF IsTransfer(ns[i], ls[i])
            THEN add_candidate(cands, Tier3Score(ns[i], ls[i]), ls[i])
            ELSE cands,
            ls, ns, i + 1)

\* a sort key that forgets the amount
KeyGreaterScoreOnly(a, b) == a.score > b.score

\* the sort key (x[0], x[1]) compared as Python compares tuples
KeyGreater(a, b) ==
    \/ a.score > b.score
    \/ a.score = b.score /\ a.amount > b.amount

\* list.sort(key=..., reverse=True): descending and stable
RECURSIVE InsertDesc(_, _)
InsertDesc(sorted, x) ==
    IF sorted = <<>> THEN <<x>>
    ELSE IF KeyGreater(x, Head(sorted)) THEN <<x>> \o sorted
    ELSE <<Head(sorted)>> \o InsertDesc(Tail(sorted), x)

RECURSIVE SortDesc(_)
SortDesc(q) ==
    IF q = <<>> THEN <<>>
    ELSE InsertDesc(SortDesc(SubSeq(q, 1, Len(q) - 1)), q[Len(q)])

Unset == [kind |-> "unset"]
None == [kind |-> "none"]

Payout(file, amount, raw_amount, matched_line) ==
    [kind |-> "payout", file |-> file, amount |-> amount,
     raw_amount |-> raw_amount, matched_line |-> matched_line]

\* lines = [ln.strip() for ln in text.splitlines() if ln.strip()]
RECURSIVE SplitLines(_)
SplitLines(t) ==
    IF t = <<>> THEN <<>>
    ELSE (IF Strip(Head(t)) # <<>> THEN <<Strip(Head(t))>> ELSE <<>>)
            \o SplitLines(Tail(t))

\* norm = [normalize(ln) for ln in lines]
NormLines(ls) == [k \in 1..Len(ls) |-> normalize(ls[k])]

(***************************************************************************)
(* Inputs: the lines a payslip text is drawn from, and the amount tokens   *)
(***************************************************************************)
W_Zahlungen == <<"Z", "a", "h", "l", "u", "n", "g", "e", "n">>
W_Ueberweisung == <<"U-uml", "b", "e", "r", "w", "e", "i", "s", "u", "n", "g">>
W_Netto == <<"N", "e", "t", "t", "o">>
W_Auszahlung == <<"A", "u", "s", "z", "a", "h", "l", "u", "n", "g">>
W_Gehalt == <<"G", "e", "h", "a", "l", "t">>
W_EUR == <<"E", "U", "R">>
SP == <<" ">>

A_1_024_09 == <<"1", ".", "0", "2", "4", ",", "0", "9">>
A_1024_09 == <<"1", "0", "2", "4", ",", "0", "9">>
A_1_200_00 == <<"1", ".", "2", "0", "0", ",", "0", "0">>
A_3_000_00 == <<"3", ".", "0", "0", "0", ",", "0", "0">>
A_50_00 == <<"5", "0", ",", "0", "0">>
A_99_00 == <<"9", "9", ",", "0", "0">>
A_12_50 == <<"1", "2", ",", "5", "0">>
A_0_00 == <<"0", ",", "0", "0">>

L_Zahl == W_Zahlungen
L_Ueb == W_Ueberweisung
L_AmtEur == A_1_024_09 \o SP \o W_EUR
L_UebAmt == W_Ueberweisung \o SP \o A_50_00
L_UebAmtEur == W_Ueberweisung \o SP \o A_1_200_00 \o SP \o W_EUR
L_Netto == W_Netto \o SP \o A_99_00
L_NettoEur == W_Netto \o SP \o A_12_50 \o SP \o W_EUR
L_Ausz == W_Auszahlung \o SP \o A_1024_09 \o SP \o <<"euro">>
L_Blank == <<" ", "\t">>
L_Gehalt == SP \o W_Gehalt \o SP \o A_3_000_00 \o SP

LinePool == {L_Zahl, L_Ueb, L_AmtEur, L_UebAmt, L_UebAmtEur, L_Netto, L_NettoEur,
             L_Ausz, L_Blank, L_Gehalt}

Texts == UNION {[1..n -> LinePool] : n \in 0..MaxLines}

\* malformed, English-locale and truncated tokens
T_12_3_45 == <<"1", "2", ".", "3", ",", "4", "5">>
T_1_024_09_en == <<"1", ",", "0", "2", "4", ".", "0", "9">>
T_1024_09_en == <<"1", "0", "2", "4", ".", "0", "9">>
T_1024 == <<"1", "0", "2", "4">>
T_1024_9 == <<"1", "0", "2", "4", ",", "9">>

\* lines with two amounts: the first is the shorter and smaller one; the
\* second one follows the keyword
T_two_amounts == A_12_50 \o SP \o A_1_024_09
T_amount_before_keyword == A_12_50 \o SP \o W_Netto \o SP \o A_99_00

NamedTokens == {T_12_3_45, T_1_024_09_en, T_1024_09_en, T_1024, T_1024_9,
                T_two_amounts, T_amount_before_keyword,
                A_1_024_09, A_1024_09, A_12_50, A_0_00}

AmountAlphabet == {"1", "9", ".", ","}

AmountInputs == NamedTokens \cup UNION {[1..n -> AmountAlphabet] : n \in 1..MaxTokLen}

(***************************************************************************)
(* Variables of the operations that are not running                        *)
(***************************************************************************)
NoFolder == [exists |-> FALSE, is_dir |-> FALSE, entries |-> <<>>]

LocateIdle ==
    /\ text = <<>>
    /\ lines = <<>>
    /\ norm = <<>>
    /\ candidates = <<>>
    /\ result = Unset

PickIdle ==
    /\ folder = NoFolder
    /\ allowed_prefixes = <<>>
    /\ scan = 0
    /\ best_dt = None
    /\ best_path = None
    /\ picked = Unset

RefreshIdle ==
    /\ save = Unset
    /\ save0 = Unset
    /\ outcome = Unset
    /\ calls = Unset

(***************************************************************************)
(* find_payout_amount as a state machine                                   *)
(***************************************************************************)
Init ==
    /\ text \in Texts
    /\ lines = <<>>
    /\ norm = <<>>
    /\ candidates = <<>>
    /\ result = Unset
    /\ pc = "start"
    /\ PickIdle
    /\ RefreshIdle

Split ==
    /\ pc = "start"
    /\ lines' = SplitLines(text)
    /\ norm' = NormLines(lines')
    /\ pc' = "tier1"
    /\ UNCHANGED <<text, candidates, result>>
    /\ UNCHANGED <<pickVars, refreshVars>>

Tier1 ==
    /\ pc = "tier1"
    /\ candidates' = Tier1Loop(candidates, lines, norm, 1)
    /\ pc' = "tier2"
    /\ UNCHANGED <<text, lines, norm, result>>
    /\ UNCHANGED <<pickVars, refreshVars>>

Tier2 ==
    /\ pc = "tier2"
    /\ candidates' = Tier2Loop(candidates, lines, norm, 1)
    /\ pc' = "tier3"
    /\ UNCHANGED <<text, lines, norm, result>>
    /\ UNCHANGED <<pickVars, refreshVars>>

Tier3 ==
    /\ pc = "tier3"
    /\ candidates' = Tier3Loop(candidates, lines, norm, 1)
    /\ pc' = "pick"
    /\ UNCHANGED <<text, lines, norm, result>>
    /\ UNCHANGED <<pickVars, refreshVars>>

Pick ==
    /\ pc = "pick"
    /\ IF candidates = <<>>
       THEN /\ result' = None
            /\ candidates' = candidates
       ELSE /\ candidates' = SortDesc(candidates)
            /\ result' = Payout(<<>>, candidates'[1].amount,
                                candidates'[1].raw_amount, candidates'[1].line)
    /\ pc' = "done"
    /\ UNCHANGED <<text, lines, norm>>
    /\ UNCHANGED <<pickVars, refreshVars>>

Next == Split \/ Tier1 \/ Tier2 \/ Tier3 \/ Pick

Spec == Init /\ [][Next]_vars

(***************************************************************************)
(* add_candidate applied to one line that is an amount token               *)
(***************************************************************************)
InitAmount ==
    /\ text \in {<<t>> : t \in AmountInputs}
    /\ lines = text
    /\ norm = <<>>
    /\ candidates = <<>>
    /\ result = Unset
    /\ pc = "amount"
    /\ PickIdle
    /\ RefreshIdle

AddCandidate ==
    /\ pc = "amount"
    /\ candidates' = add_candidate(candidates, TIER3_BASE, lines[1])
    /\ pc' = "amount_done"
    /\ UNCHANGED <<text, lines, norm, result>>
    /\ UNCHANGED <<pickVars, refreshVars>>

NextAmount == AddCandidate

SpecAmount == InitAmount /\ [][NextAmount]_vars

(***************************************************************************)
(* find_payout_amount on texts longer than the tier-1 window               *)
(***************************************************************************)
L_Filler == <<"x">>
L_ZahlUebAmt == W_Zahlungen \o SP \o W_Ueberweisung \o SP \o A_12_50

\* n lines: "Zahlungen" at z1 and z2 (0: nowhere), "Ueberweisung 50,00" at j
\* (on the "Zahlungen" line itself if j is one), "Ueberweisung 1.200,00 EUR"
\* at j2 (0: nowhere), "x" elsewhere
WindowText(n, z1, z2, j, j2) ==
    [k \in 1..n |->
        IF k = j THEN (IF k \in {z1, z2} THEN L_ZahlUebAmt ELSE L_UebAmt)
        ELSE IF k \in {z1, z2} THEN L_Zahl
        ELSE IF k = j2 THEN L_UebAmtEur
        ELSE L_Filler]

\* the same text with a blank line put in front of its last line
WithBlankLine(t) == SubSeq(t, 1, Len(t) - 1) \o <<L_Blank, t[Len(t)]>>

InitWindow ==
    /\ \E n \in {MaxWindowLines - 1, MaxWindowLines} :
       \E z1 \in 0..n : \E z2 \in {0, z1 + 2} : \E j \in 1..n : \E j2 \in {0, j + 1} :
       \E blank \in BOOLEAN :
          /\ z2 <= n /\ j2 <= n /\ (z1 = 0 => z2 = 0) /\ j2 \notin {z1, z2} \ {0}
          /\ text = IF blank THEN WithBlankLine(WindowText(n, z1, z2, j, j2))
                            ELSE WindowText(n, z1, z2, j, j2)
    /\ lines = <<>>
    /\ norm = <<>>
    /\ candidates = <<>>
    /\ result = Unset
    /\ pc = "start"
    /\ PickIdle
    /\ RefreshIdle

SpecWindow == InitWindow /\ [][Next]_vars

(***************************************************************************)
(* pick_latest_pdf: the year-month key of a file name                      *)
(***************************************************************************)
\* YEAR_MONTH_RE matched at position p: "20", two digits, then 01..09 or 10..12
YearMonthAt(s, p) ==
    /\ p + 5 <= Len(s)
    /\ s[p] = "2"
    /\ s[p + 1] = "0"
    /\ s[p + 2] \in Digits
    /\ s[p + 3] \in Digits
    /\ \/ s[p + 4] = "0" /\ s[p + 5] \in (Digits \ {"0"})
       \/ s[p + 4] = "1" /\ s[p + 5] \in {"0", "1", "2"}

YearMonthStarts(s) == {p \in 1..Len(s) : YearMonthAt(s, p)}

\* the last match in the name instead of the first one
YEAR_MONTH_RE_search_last(s) ==
    IF YearMonthStarts(s) = {} THEN None
    ELSE LET p == CHOOSE p \in YearMonthStarts(s) : \A q \in YearMonthStarts(s) : q <= p
         IN  [kind |-> "match", group1 |-> SubSeq(s, p, p + 3), group2 |-> SubSeq(s, p + 4, p + 5)]

\* YEAR_MONTH_RE.search: the leftmost match, or None
YEAR_MONTH_RE_search(s) ==
    IF YearMonthStarts(s) = {} THEN None
    ELSE LET p == CHOOSE p \in YearMonthStarts(s) : \A q \in YearMonthStarts(s) : p <= q
         IN  [kind |-> "match", group1 |-> SubSeq(s, p, p + 3), group2 |-> SubSeq(s, p + 4, p + 5)]

\* datetime.strptime(ym, "%Y%m"): four digits of year, then a month that has
\* to be in 1..12 (and a year from 1 on), else ValueError
strptime(ym) ==
    LET year == DigitsToNat(SubSeq(ym, 1, 4))
        month == DigitsToNat(SubSeq(ym, 5, Len(ym)))
    IN  IF Len(ym) = 6 /\ (\A k \in 1..6 : ym[k] \in Digits)
           /\ year >= 1 /\ month >= 1 /\ month <= 12
        THEN [kind |-> "datetime", year |-> year, month |-> month]
        ELSE [kind |-> "ValueError"]

extract_yyyymm_from_name(name) ==
    LET m == YEAR_MONTH_RE_search(name)
    IN  IF m = None THEN None
        ELSE LET dt == strptime(m.group1 \o m.group2)
             IN  IF dt.kind = "ValueError" THEN None ELSE dt

\* datetime comparison: a >= b, so that an equal key replaces the best
DtGreaterOrEqual(a, b) ==
    \/ a.year > b.year
    \/ a.year = b.year /\ a.month >= b.month

\* datetime comparison a > b (both on the first day of their month)
DtGreater(a, b) ==
    \/ a.year > b.year
    \/ a.year = b.year /\ a.month > b.month

(***************************************************************************)
(* pick_latest_pdf: the filters and the loop body                          *)
(***************************************************************************)
\* the precondition on the folder looking at its existence only
FolderOkExistsOnly(f) == f.exists

\* folder.exists() and folder.is_dir()
FolderOk(f) == f.exists /\ f.is_dir

\* Path.suffix: from the last dot of the name on, unless that dot is the first
\* or the last character of the name
Suffix(name) ==
    LET dots == {k \in 1..Len(name) : name[k] = "."}
    IN  IF dots = {} THEN <<>>
        ELSE LET k == CHOOSE k \in dots : \A j \in dots : j <= k
             IN  IF k > 1 /\ k < Len(name) THEN SubSeq(name, k, Len(name)) ELSE <<>>

DOT_PDF == <<".", "p", "d", "f">>

\* the extension compared as written
IsPdfFileCaseSensitive(p) == p.is_file /\ Suffix(p.name) = DOT_PDF

\* p.is_file() and p.suffix.lower() == ".pdf"
IsPdfFile(p) == p.is_file /\ Lower(Suffix(p.name)) = DOT_PDF

\* the prefix filter left out
PrefixOkAlways(name, prefixes) == TRUE

\* not (allowed_prefixes and not any(n.startswith(pref) ...)) with n = name.lower();
\* the prefixes are compared as they were passed in
PrefixOk(name, prefixes) ==
    \/ prefixes = <<>>
    \/ \E k \in 1..Len(prefixes) : StartsAt(Lower(name), prefixes[k], 1)

\* a loop body that takes every file it accepts
ScanEntryKeepLast(dt_best, path_best, p, prefixes) ==
    IF ~IsPdfFile(p) THEN <<dt_best, path_best>>
    ELSE IF ~PrefixOk(p.name, prefixes) THEN <<dt_best, path_best>>
    ELSE LET dt == extract_yyyymm_from_name(p.name)
         IN  IF dt = None THEN <<dt_best, path_best>> ELSE <<dt, p>>

\* a loop body that keeps the first file it accepted
ScanEntryKeepFirst(dt_best, path_best, p, prefixes) ==
    IF ~IsPdfFile(p) THEN <<dt_best, path_best>>
    ELSE IF ~PrefixOk(p.name, prefixes) THEN <<dt_best, path_best>>
    ELSE LET dt == extract_yyyymm_from_name(p.name)
         IN  IF dt = None THEN <<dt_best, path_best>>
             ELSE IF dt_best = None THEN <<dt, p>>
             ELSE <<dt_best, path_best>>

\* one pass of the loop body over entry p, from the running best to the new one
ScanEntry(dt_best, path_best, p, prefixes) ==
    IF ~IsPdfFile(p) THEN <<dt_best, path_best>>
    ELSE IF ~PrefixOk(p.name, prefixes) THEN <<dt_best, path_best>>
    ELSE LET dt == extract_yyyymm_from_name(p.name)
         IN  IF dt = None THEN <<dt_best, path_best>>
             ELSE IF dt_best = None THEN <<dt, p>>
             ELSE IF DtGreater(dt, dt_best) THEN <<dt, p>>
             ELSE <<dt_best, path_best>>

FileNotFoundError == [kind |-> "raise", exc |-> "FileNotFoundError"]

(***************************************************************************)
(* Folders and prefixes pick_latest_pdf is run on                          *)
(***************************************************************************)
File(name) == [kind |-> "path", name |-> name, is_file |-> TRUE]
Dir(name) == [kind |-> "path", name |-> name, is_file |-> FALSE]

P_entgeltnachweis == <<"e", "n", "t", "g", "e", "l", "t", "n", "a", "c", "h", "w", "e", "i", "s", "_">>
P_entgeltabrechnung == <<"e", "n", "t", "g", "e", "l", "t", "a", "b", "r", "e", "c", "h", "n", "u", "n", "g", "_">>
P_Entgeltnachweis == <<"E", "n", "t", "g", "e", "l", "t", "n", "a", "c", "h", "w", "e", "i", "s", "_">>
P_Entgeltabrechnung == <<"E", "n", "t", "g", "e", "l", "t", "a", "b", "r", "e", "c", "h", "n", "u", "n", "g", "_">>

DefaultPrefixes == <<P_entgeltnachweis, P_entgeltabrechnung>>
NoPrefixes == <<>>
CapitalPrefixes == <<P_Entgeltnachweis, P_Entgeltabrechnung>>
PrefixChoices == {DefaultPrefixes, NoPrefixes, CapitalPrefixes}

N_nachweis_202401 == P_entgeltnachweis \o <<"2", "0", "2", "4", "0", "1", ".", "p", "d", "f">>
N_nachweis_202512 == P_entgeltnachweis \o <<"2", "0", "2", "5", "1", "2", ".", "p", "d", "f">>
N_sonstiges_202601 == <<"s", "o", "n", "s", "t", "i", "g", "e", "s", "_", "2", "0", "2", "6", "0", "1", ".", "p", "d", "f">>
N_Abrechnung_202512 == P_Entgeltabrechnung \o <<"2", "0", "2", "5", "1", "2", ".", "P", "D", "F">>
N_nachweis_202513 == P_entgeltnachweis \o <<"2", "0", "2", "5", "1", "3", ".", "p", "d", "f">>
N_nachweis_202611_txt == P_entgeltnachweis \o <<"2", "0", "2", "6", "1", "1", ".", "t", "x", "t">>
N_nachweis_202612 == P_entgeltnachweis \o <<"2", "0", "2", "6", "1", "2", ".", "p", "d", "f">>
N_nachweis_202403_202611 == P_entgeltnachweis \o <<"2", "0", "2", "4", "0", "3", "_", "2", "0", "2", "6", "1", "1", ".", "p", "d", "f">>

EntryPool ==
    { File(N_nachweis_202401), File(N_nachweis_202512), File(N_sonstiges_202601),
      File(N_Abrechnung_202512), File(N_nachweis_202513), File(N_nachweis_202611_txt),
      Dir(N_nachweis_202612), File(N_nachweis_202403_202611) }

\* the listings of a folder: its entries, each once, in any order
Listings(n) ==
    UNION { {q \in [1..k -> EntryPool] : \A i, j \in 1..k : q[i] = q[j] => i = j} : k \in 0..n }

Directory(entries) == [exists |-> TRUE, is_dir |-> TRUE, entries |-> entries]
NotADirectory == [exists |-> TRUE, is_dir |-> FALSE, entries |-> <<>>]

Folders == {NoFolder, NotADirectory} \cup {Directory(q) : q \in Listings(MaxFiles)}

(***************************************************************************)
(* pick_latest_pdf as a state machine                                      *)
(***************************************************************************)
InitPick ==
    /\ folder \in Folders
    /\ allowed_prefixes \in PrefixChoices
    /\ scan = 0
    /\ best_dt = None
    /\ best_path = None
    /\ picked = Unset
    /\ pc = "pick_latest"
    /\ LocateIdle
    /\ RefreshIdle

\* lines 142-147: the precondition, then the empty running best
PickLatestStart ==
    /\ pc = "pick_latest"
    /\ IF ~FolderOk(folder)
       THEN /\ picked' = FileNotFoundError
            /\ pc' = "picked"
       ELSE /\ picked' = picked
            /\ pc' = "iterdir"
    /\ best_dt' = None
    /\ best_path' = None
    /\ scan' = 0
    /\ UNCHANGED <<folder, allowed_prefixes, locateVars, refreshVars>>

\* lines 149-163: the loop body on the next entry of the listing
ScanStep ==
    /\ pc = "iterdir"
    /\ scan < Len(folder.entries)
    /\ LET b == ScanEntry(best_dt, best_path, folder.entries[scan + 1], allowed_prefixes)
       IN  /\ best_dt' = b[1]
           /\ best_path' = b[2]
    /\ scan' = scan + 1
    /\ UNCHANGED <<folder, allowed_prefixes, picked, pc, locateVars, refreshVars>>

\* line 165
PickLatestReturn ==
    /\ pc = "iterdir"
    /\ scan = Len(folder.entries)
    /\ picked' = best_path
    /\ pc' = "picked"
    /\ UNCHANGED <<folder, allowed_prefixes, scan, best_dt, best_path, locateVars, refreshVars>>

NextPick == PickLatestStart \/ ScanStep \/ PickLatestReturn

SpecPick == InitPick /\ [][NextPick]_vars

\* extract_yyyymm_from_name on generated names: a folder holding one PDF
KeyAlphabet == {"0", "1", "2", "x"}

N_202513_202401 == <<"2", "0", "2", "5", "1", "3", "_", "2", "0", "2", "4", "0", "1">>
N_199912 == <<"1", "9", "9", "9", "1", "2">>
N_210001 == <<"2", "1", "0", "0", "0", "1">>
N_2202401 == <<"2", "2", "0", "2", "4", "0", "1">>
N_202400 == <<"2", "0", "2", "4", "0", "0">>
N_202403_202611 == <<"2", "0", "2", "4", "0", "3", "_", "2", "0", "2", "6", "1", "1">>
N_202611_202403 == <<"2", "0", "2", "6", "1", "1", "_", "2", "0", "2", "4", "0", "3">>
N_20241 == <<"2", "0", "2", "4", "1">>
N_202409 == <<"2", "0", "2", "4", "0", "9">>

NamedStems ==
    { N_202513_202401, N_199912, N_210001, N_2202401, N_202400,
      N_202403_202611, N_202611_202403, N_20241, N_202409 }

Stems == NamedStems \cup UNION { [1..n -> KeyAlphabet] : n \in 0..MaxNameLen }

InitKey ==
    /\ \/ \E stem \in Stems : folder = Directory(<<File(stem \o DOT_PDF)>>)
       \/ folder = NoFolder
    /\ allowed_prefixes = NoPrefixes
    /\ scan = 0
    /\ best_dt = None
    /\ best_path = None
    /\ picked = Unset
    /\ pc = "pick_latest"
    /\ LocateIdle
    /\ RefreshIdle

SpecKey == InitKey /\ [][NextPick]_vars

(***************************************************************************)
(* pick_latest_pdf as a single call                                        *)
(***************************************************************************)
RECURSIVE ScanAll(_, _, _, _)
ScanAll(best, entries, k, prefixes) ==
    IF k > Len(entries) THEN best
    ELSE ScanAll(ScanEntry(best[1], best[2], entries[k], prefixes), entries, k + 1, prefixes)

pick_latest_pdf(f, prefixes) ==
    IF ~FolderOk(f) THEN FileNotFoundError
    ELSE ScanAll(<<None, None>>, f.entries, 1, prefixes)[2]

(***************************************************************************)
(* save.json: GUI.py helpers, load.lastSave, save.save_data, calc          *)
(***************************************************************************)
\* save.json is missing, holds no valid JSON, or holds the dictionary data
MissingFile == [kind |-> "missing"]
CorruptFile == [kind |-> "corrupt"]
Saved(data) == [kind |-> "json", data |-> data]

ZERO == <<"0">>
EMPTY_STR == <<>>

DEFAULT_SETTINGS ==
    [appearance_mode |-> "Dark", color_theme |-> "blue",
     use_paychecks |-> FALSE, last_paycheck_file |-> EMPTY_STR]

\* the Settings load.py and save.py fall back to
LEGACY_SETTINGS == [appearance_mode |-> "Dark", color_theme |-> "blue"]

DEFAULT_SAVE ==
    [Balance |-> ZERO, Expenses |-> <<>>, lastPayCheck |-> ZERO, Debts |-> <<>>,
     Settings |-> DEFAULT_SETTINGS, path |-> EMPTY_STR]

\* data.setdefault(k, v) / "Add Settings if it doesn't exist"
SetDefault(d, k, v) ==
    IF k \in DOMAIN d THEN d
    ELSE [x \in DOMAIN d \cup {k} |-> IF x = k THEN v ELSE d[x]]

\* d[k] = v
SetItem(d, k, v) == [x \in DOMAIN d \cup {k} |-> IF x = k THEN v ELSE d[x]]

\* read_raw_save rewriting the defaults on every call
read_raw_save_resetting(s) == [file |-> Saved(DEFAULT_SAVE), data |-> DEFAULT_SAVE]

\* read_raw_save: the file afterwards and the dictionary returned; a missing or
\* unreadable file is replaced by the defaults
read_raw_save(s) ==
    IF s.kind = "json" THEN [file |-> s, data |-> s.data]
    ELSE [file |-> Saved(DEFAULT_SAVE), data |-> DEFAULT_SAVE]

\* a run of d.setdefault(k, v) calls, one for each key k of defaults
SetDefaults(d, defaults) ==
    [k \in DOMAIN d \cup DOMAIN defaults |-> IF k \in DOMAIN d THEN d[k] ELSE defaults[k]]

ensure_settings_defaults(data) ==
    LET d == SetDefaults(data, [Balance |-> ZERO, Expenses |-> <<>>, lastPayCheck |-> ZERO,
                                Debts |-> <<>>, path |-> EMPTY_STR, Settings |-> <<>>])
    IN  SetItem(d, "Settings",
                SetDefaults(d.Settings, [appearance_mode |-> "Dark", color_theme |-> "blue",
                                         use_paychecks |-> FALSE, last_paycheck_file |-> EMPTY_STR]))

\* set_setting: the file afterwards
set_setting(s, key, value) ==
    LET r == read_raw_save(s)
        data == ensure_settings_defaults(r.data)
    IN  Saved(SetItem(data, "Settings", SetItem(data.Settings, key, value)))

\* get_path: the file afterwards and str(data.get("path", "")).strip()
get_path(s) ==
    LET r == read_raw_save(s)
    IN  [file |-> r.file, path |-> Strip(ensure_settings_defaults(r.data).path)]

\* load.lastSave on a missing or a readable file
lastSave(s) ==
    IF s.kind = "missing"
    THEN [Balance |-> ZERO, Expenses |-> <<>>, lastPayCheck |-> ZERO, Debts |-> <<>>,
          Settings |-> LEGACY_SETTINGS]
    ELSE SetDefault(s.data, "Settings", LEGACY_SETTINGS)

\* save_data writing the fallback Settings whatever the file holds
save_data_fallback_settings(s, gehalt, LastEGA, ausgaben, Schulden) ==
    LET existing == IF s.kind = "json" THEN s.data ELSE <<>>
        my_data == [Balance |-> gehalt, Expenses |-> ausgaben, lastPayCheck |-> LastEGA,
                    Debts |-> Schulden, Settings |-> LEGACY_SETTINGS]
    IN  Saved(IF "path" \in DOMAIN existing
              THEN SetItem(my_data, "path", existing.path)
              ELSE my_data)

\* save.save_data on a missing or a readable file: the file afterwards
save_data(s, gehalt, LastEGA, ausgaben, Schulden) ==
    LET existing == IF s.kind = "json" THEN s.data ELSE <<>>
        my_data == [Balance |-> gehalt, Expenses |-> ausgaben, lastPayCheck |-> LastEGA,
                    Debts |-> Schulden,
                    Settings |-> IF "Settings" \in DOMAIN existing
                                 THEN existing.Settings ELSE LEGACY_SETTINGS]
    IN  Saved(IF "path" \in DOMAIN existing
              THEN SetItem(my_data, "path", existing.path)
              ELSE my_data)

\* data.get(k, [])
GetOrEmpty(data, k) == IF k \in DOMAIN data THEN data[k] ELSE <<>>

\* set_balance_str writing empty lists instead of the stored ones
set_balance_str_from_scratch(s, balance_str) ==
    save_data(s, balance_str, balance_str, <<>>, <<>>)

\* set_balance_str: the file afterwards
set_balance_str(s, balance_str) ==
    LET data == lastSave(s)
    IN  save_data(s, balance_str, balance_str, GetOrEmpty(data, "Expenses"), GetOrEmpty(data, "Debts"))

ValueError == [kind |-> "ValueError"]
Float(cents) == [kind |-> "float", cents |-> cents]

\* the balance parsed with "," removed instead of "."
Calculations_gehalt_comma_removed(data) ==
    LET t == Replace(Replace(Replace(data.Balance, ",", <<>>), ".", <<".">>), "euro", <<>>)
    IN  IF IsFloatLiteral(t) THEN Float(FloatCents(t)) ELSE ValueError

\* calc.py line 7: float(Balance.replace(".", "").replace(",", ".").replace("€", ""))
Calculations_gehalt(data) ==
    LET t == Replace(Replace(Replace(data.Balance, ".", <<>>), ",", <<".">>), "euro", <<>>)
    IN  IF IsFloatLiteral(t) THEN Float(FloatCents(t)) ELSE ValueError

(***************************************************************************)
(* refresh_balance_from_pdf: the file system and the saves it is run on    *)
(***************************************************************************)
PATH_missing == <<"/", "m">>
PATH_file == <<"/", "f">>
PATH_payslips == <<"/", "p">>
PATH_payslips_blank == <<"/", "p", " ">>
PATH_other == <<"/", "o">>

N_save_json == <<"s", "a", "v", "e", ".", "j", "s", "o", "n">>

\* the program's own directory, which the empty path stands for
BaseDir == Directory(<<File(N_save_json)>>)
Payslips == Directory(<<File(N_nachweis_202401), File(N_nachweis_202512), File(N_sonstiges_202601)>>)
OtherOnly == Directory(<<File(N_sonstiges_202601), File(N_nachweis_202513)>>)

\* Path(p).expanduser() on the modelled file system
FolderAt(p) ==
    CASE p = EMPTY_STR -> BaseDir
      [] p = PATH_payslips -> Payslips
      [] p = PATH_other -> OtherOnly
      [] p = PATH_file -> NotADirectory
      [] OTHER -> NoFolder

PathPool == {EMPTY_STR, PATH_missing, PATH_file, PATH_payslips, PATH_payslips_blank, PATH_other}

E_rent == <<[name |-> "rent", amount |-> "700", is_monthly |-> TRUE]>>
D_loan == <<[debt_name |-> "loan", debt_monthly |-> "Yes"]>>

UsedSave(p) ==
    [Balance |-> A_1_200_00, Expenses |-> E_rent, lastPayCheck |-> A_3_000_00, Debts |-> D_loan,
     Settings |-> [appearance_mode |-> "Light", color_theme |-> "green",
                   use_paychecks |-> TRUE, last_paycheck_file |-> N_nachweis_202401],
     path |-> p]

\* a file written by save.save_data before GUI.py touched it: no path, two settings
LegacySave ==
    [Balance |-> A_50_00, Expenses |-> E_rent, lastPayCheck |-> ZERO, Debts |-> <<>>,
     Settings |-> LEGACY_SETTINGS]

Saves ==
    {MissingFile, CorruptFile, Saved(LegacySave)}
        \cup {Saved(UsedSave(p)) : p \in PathPool}
        \cup {Saved(SetItem(DEFAULT_SAVE, "path", p)) : p \in PathPool}

\* what extract_pdf_text can read out of the selected PDF
RefreshTexts == UNION {[1..n -> LinePool] : n \in 0..MaxRefreshLines}

MSG_NO_FOLDER == <<"Paycheck folder does not exist.">>
MSG_NO_FILE == <<"No matching payslip PDFs found.">>
MSG_NO_PAYOUT == <<"Could not find payout amount in latest PDF.">>
MSG_NOT_A_DIRECTORY == <<"Folder not found or not a directory: {folder}">>
MSG_PDF_ERROR == <<"str(e) of the exception raised by pdfplumber">>
MSG_LOADED(raw, file) == <<"Loaded ", raw, "euro", " from ", file>>

Failure(message) == [ok |-> FALSE, message |-> message]
Success(message) == [ok |-> TRUE, message |-> message]

(***************************************************************************)
(* refresh_balance_from_pdf as a state machine                             *)
(***************************************************************************)
InitRefresh ==
    /\ save \in Saves
    /\ save0 = save
    /\ outcome = Unset
    /\ calls = Unset
    /\ pc = "refresh"
    /\ LocateIdle
    /\ PickIdle

\* lines 155-157: get_path(), folder.exists()
R_GetPath ==
    /\ pc = "refresh"
    /\ LET g == get_path(save)
       IN  /\ save' = g.file
           /\ folder' = FolderAt(g.path)
    /\ IF ~folder'.exists
       THEN outcome' = Failure(MSG_NO_FOLDER) /\ pc' = "refreshed"
       ELSE outcome' = outcome /\ pc' = "r_pick"
    /\ UNCHANGED <<save0, calls, allowed_prefixes, scan, best_dt, best_path, picked, locateVars>>

\* lines 159-161: pick_latest_pdf(folder) with the default prefixes
R_Pick ==
    /\ pc = "r_pick"
    /\ allowed_prefixes' = DefaultPrefixes
    /\ picked' = pick_latest_pdf(folder, allowed_prefixes')
    /\ IF picked' = FileNotFoundError
       THEN outcome' = Failure(MSG_NOT_A_DIRECTORY) /\ pc' = "refreshed"
       ELSE IF picked' = None
       THEN outcome' = Failure(MSG_NO_FILE) /\ pc' = "refreshed"
       ELSE outcome' = outcome /\ pc' = "r_extract"
    /\ UNCHANGED <<save, save0, calls, folder, scan, best_dt, best_path, locateVars>>

\* line 163: extract_pdf_text(latest_pdf) returns some text or raises
R_Extract ==
    /\ pc = "r_extract"
    /\ \/ /\ text' \in RefreshTexts
          /\ outcome' = outcome
          /\ pc' = "r_locate"
       \/ /\ text' = text
          /\ outcome' = Failure(MSG_PDF_ERROR)
          /\ pc' = "refreshed"
    /\ UNCHANGED <<save, save0, calls, pickVars, lines, norm, candidates, result>>

\* lines 164-168: find_payout_amount(text), payout.file = latest_pdf.name
R_Locate ==
    /\ pc = "r_locate"
    /\ lines' = SplitLines(text)
    /\ norm' = NormLines(lines')
    /\ candidates' = SortDesc(Tier3Loop(Tier2Loop(Tier1Loop(<<>>, lines', norm', 1),
                                                  lines', norm', 1),
                                        lines', norm', 1))
    /\ IF candidates' = <<>>
       THEN /\ result' = None
            /\ outcome' = Failure(MSG_NO_PAYOUT)
            /\ pc' = "refreshed"
       ELSE /\ result' = Payout(picked.name, candidates'[1].amount,
                                candidates'[1].raw_amount, candidates'[1].line)
            /\ outcome' = outcome
            /\ pc' = "r_store"
    /\ UNCHANGED <<save, save0, calls, pickVars, text>>

\* line 171: set_balance_str(payout.raw_amount)
R_SetBalance ==
    /\ pc = "r_store"
    /\ save' = set_balance_str(save, result.raw_amount)
    /\ pc' = "r_setting"
    /\ UNCHANGED <<save0, calls, outcome, pickVars, locateVars>>

\* lines 174-176: set_setting("last_paycheck_file", payout.file), return ok
R_SetSetting ==
    /\ pc = "r_setting"
    /\ save' = set_setting(save, "last_paycheck_file", result.file)
    /\ outcome' = Success(MSG_LOADED(result.raw_amount, result.file))
    /\ pc' = "refreshed"
    /\ UNCHANGED <<save0, calls, pickVars, locateVars>>

NextRefresh == R_GetPath \/ R_Pick \/ R_Extract \/ R_Locate \/ R_SetBalance \/ R_SetSetting

SpecRefresh == InitRefresh /\ [][NextRefresh]_vars

(***************************************************************************)
(* save_data called again and again on an existing save.json               *)
(***************************************************************************)
\* a file from before Settings were stored, which lastSave still accepts
OldSave == [Balance |-> A_50_00, Expenses |-> E_rent, lastPayCheck |-> A_50_00, Debts |-> D_loan]

ExistingSaves ==
    {Saved(OldSave), Saved(LegacySave), Saved(DEFAULT_SAVE),
     Saved(UsedSave(PATH_payslips)), Saved(UsedSave(EMPTY_STR))}

Amounts == {ZERO, A_1_200_00}
ExpensesPool == {<<>>, E_rent}
DebtsPool == {<<>>, D_loan}

\* calls holds the arguments of the calls made so far
InitSave ==
    /\ save \in ExistingSaves
    /\ save0 = save
    /\ calls = <<>>
    /\ outcome = Unset
    /\ pc = "save_data"
    /\ LocateIdle
    /\ PickIdle

\* save.py lines 5-30, called from the entry form
SaveData ==
    /\ pc = "save_data"
    /\ Len(calls) < MaxCalls
    /\ \E gehalt \in Amounts, LastEGA \in Amounts, ausgaben \in ExpensesPool, Schulden \in DebtsPool :
          /\ save' = save_data(save, gehalt, LastEGA, ausgaben, Schulden)
          /\ calls' = Append(calls, [gehalt |-> gehalt, LastEGA |-> LastEGA,
                                     ausgaben |-> ausgaben, Schulden |-> Schulden])
    /\ UNCHANGED <<pc, save0, outcome, pickVars, locateVars>>

\* GUI.py lines 142-147: set_balance_str, which reads the lists back with lastSave
SetBalanceStr ==
    /\ pc = "save_data"
    /\ Len(calls) < MaxCalls
    /\ \E balance_str \in Amounts :
          LET data == lastSave(save)
          IN  /\ save' = set_balance_str(save, balance_str)
              /\ calls' = Append(calls, [gehalt |-> balance_str, LastEGA |-> balance_str,
                                         ausgaben |-> GetOrEmpty(data, "Expenses"),
                                         Schulden |-> GetOrEmpty(data, "Debts")])
    /\ UNCHANGED <<pc, save0, outcome, pickVars, locateVars>>

NextSave == SaveData \/ SetBalanceStr

SpecSave == InitSave /\ [][NextSave]_vars

(***************************************************************************)
(* normalize applied to a string, then to its own result                   *)
(***************************************************************************)
NormAlphabet == {"U-uml", "u-uml", "O-uml", "a-uml", "eszett", "S", "s", "e", " "}

NormInputs == UNION {[1..n -> NormAlphabet] : n \in 0..MaxNormLen}

\* text holds the string, norm the results of the successive calls
InitNormalize ==
    /\ text \in {<<s>> : s \in NormInputs}
    /\ lines = text
    /\ norm = <<>>
    /\ candidates = <<>>
    /\ result = Unset
    /\ pc = "normalize"
    /\ PickIdle
    /\ RefreshIdle

Normalize ==
    /\ pc = "normalize"
    /\ norm' = <<normalize(text[1])>>
    /\ pc' = "normalized"
    /\ UNCHANGED <<text, lines, candidates, result, pickVars, refreshVars>>

NormalizeAgain ==
    /\ pc = "normalized"
    /\ norm' = Append(norm, normalize(norm[1]))
    /\ pc' = "renormalized"
    /\ UNCHANGED <<text, lines, candidates, result, pickVars, refreshVars>>

NextNormalize == Normalize \/ NormalizeAgain

SpecNormalize == InitNormalize /\ [][NextNormalize]_vars

(***************************************************************************)
(* Vocabulary of the properties                                            *)
(***************************************************************************)
\* what each tier's loop generates for the current lines, in order
GenT1 == Tier1Loop(<<>>, lines, norm, 1)
GenT2 == Tier2Loop(<<>>, lines, norm, 1)
GenT3 == Tier3Loop(<<>>, lines, norm, 1)
Generated == GenT1 \o GenT2 \o GenT3

Done == pc = "done"
Returned == Done /\ result.kind = "payout"

\* the returned Payout carries the fields of candidate c
ReturnedFrom(c) ==
    /\ Returned
    /\ result.amount = c.amount
    /\ result.raw_amount = c.raw_amount
    /\ result.matched_line = c.line

HasAmount(ln) == AMOUNT_RE_search(ln).found

\* line j holds a transfer keyword inside the window [i, i+20) of a "zahlungen" line i
IsHit1(j) ==
    /\ IsTransfer(norm[j], lines[j])
    /\ \E i \in 1..Len(lines) : IsZahlungen(norm[i]) /\ i <= j /\ j < i + WINDOW
IsHit2(j) == IsPayoutWord(norm[j])
IsHit3(j) == IsTransfer(norm[j], lines[j])
IsHit(j) == IsHit1(j) \/ IsHit2(j) \/ IsHit3(j)

\* the lines handed to add_candidate: a hit, or the line after a tier-1 or tier-2 hit
Offered ==
    {j \in 1..Len(lines) :
        \/ IsHit(j)
        \/ j > 1 /\ (IsHit1(j - 1) \/ IsHit2(j - 1))}

\* line j holds any keyword of the three tiers
IsKeywordLine(j) ==
    IsZahlungen(norm[j]) \/ IsTransfer(norm[j], lines[j]) \/ IsPayoutWord(norm[j])

\* s as a whole is a string of the amount grammar
IsAmountToken(s) ==
    \E d \in 1..Len(s), g \in 0..Len(s) :
        /\ d + 4 * g + 3 = Len(s)
        /\ \A k \in 1..d : IsDigitAt(s, k)
        /\ MatchOk(s, 1, d, g)

(***************************************************************************)
(* C1..C7: find_payout_amount                                              *)
(***************************************************************************)
\* C1: whenever at least one candidate is generated, the returned Payout is a
\* candidate of maximal score and, among those of maximal score, of maximal amount.
C1_BestScoreThenAmount ==
    (Done /\ Generated # <<>>) =>
        \E c \in Range(Generated) :
            /\ ReturnedFrom(c)
            /\ \A d \in Range(Generated) :
                 /\ d.score <= c.score
                 /\ d.score = c.score => d.amount <= c.amount

\* C1 witness: two candidates share the top score with different amounts and the
\* larger amount is returned although it was generated later.
C1_Witness ==
    /\ Returned
    /\ \E a, b \in 1..Len(Generated) :
         /\ a < b
         /\ Generated[a].score = Generated[b].score
         /\ Generated[a].amount < Generated[b].amount
         /\ ReturnedFrom(Generated[b])
         /\ \A d \in Range(Generated) : d.score <= Generated[b].score

\* C2: the result comes from the highest tier that produced a candidate: a tier-1
\* candidate (next-line ones included) wins over every tier-2 and tier-3 candidate,
\* a tier-2 candidate over every tier-3 one, and a tier-3 candidate is returned
\* only when tiers 1 and 2 produced nothing.
C2_HighestTierWins ==
    (Done /\ Generated # <<>>) =>
        /\ ReturnedFrom(candidates[1])
        /\ GenT1 # <<>> => candidates[1] \in Range(GenT1)
        /\ (GenT1 = <<>> /\ GenT2 # <<>>) => candidates[1] \in Range(GenT2)
        /\ candidates[1] \in Range(GenT3) => (GenT1 = <<>> /\ GenT2 = <<>>)

\* C2 witness: all three tiers produced candidates and a tier-1 next-line
\* candidate (score 95) or hit is returned.
C2_Witness ==
    /\ Returned
    /\ GenT1 # <<>> /\ GenT2 # <<>> /\ GenT3 # <<>>
    /\ candidates[1] \in Range(GenT1)

\* the line "Überweisung" at j is followed by the line "1.024,09 EUR"
TransferThenAmount(j) ==
    /\ j + 1 <= Len(lines)
    /\ lines[j] = L_Ueb
    /\ lines[j + 1] = L_AmtEur

NextLineCandidate ==
    Candidate(TIER1_BASE - NEXT_LINE_PENALTY, 102409, A_1_024_09, L_AmtEur)

\* C3 as stated: wherever "Überweisung" is followed by "1.024,09 EUR", a tier-1
\* candidate of score 95 is made from the second line and 1.024,09 is returned.
C3_AsStated ==
    Done =>
        \A j \in 1..Len(lines) :
            TransferThenAmount(j) =>
                /\ NextLineCandidate \in Range(GenT1)
                /\ Returned
                /\ result.amount = 102409

\* C3 amended: when the "Überweisung" line lies in the window of a "zahlungen"
\* line, the following line yields a tier-1 candidate of score 100 - 5 = 95, a
\* Payout is returned, and its amount is 1024.09 unless another candidate has a
\* greater (score, amount).
C3_NextLineInBlock ==
    Done =>
        \A j \in 1..Len(lines) :
            (TransferThenAmount(j) /\ IsHit1(j)) =>
                /\ NextLineCandidate \in Range(GenT1)
                /\ NextLineCandidate \in Range(candidates)
                /\ Returned
                /\ (\A d \in Range(Generated) : ~KeyGreater(d, NextLineCandidate))
                      => result.amount = 102409

\* C3 witness: "Zahlungen", "Überweisung", "1.024,09 EUR" returns 1.024,09 from
\* the third line.
C3_Witness ==
    /\ Returned
    /\ \E j \in 1..Len(lines) : TransferThenAmount(j) /\ IsHit1(j)
    /\ ReturnedFrom(NextLineCandidate)

\* C4 as stated: none is returned exactly when no keyword line carries an amount.
C4_AsStated ==
    Done =>
        (result = None <=>
            ~ \E j \in 1..Len(lines) : IsKeywordLine(j) /\ HasAmount(lines[j]))

\* C4 amended: none is returned exactly when no candidate was generated, that is
\* when no line handed to add_candidate (a tier hit, or the line after a tier-1
\* or tier-2 hit) carries an amount; a text without any keyword returns none.
C4_NoneIffNoCandidate ==
    Done =>
        /\ result.kind \in {"none", "payout"}
        /\ result = None <=> Generated = <<>>
        /\ result = None <=> \A j \in Offered : ~HasAmount(lines[j])
        /\ (\A j \in 1..Len(lines) : ~IsKeywordLine(j)) => result = None

\* C4 witness: a text with a keyword hit and an amount elsewhere returns none.
C4_Witness ==
    /\ Done
    /\ result = None
    /\ \E j \in 1..Len(lines) : IsHit(j)
    /\ \E j \in 1..Len(lines) : HasAmount(lines[j])

\* C5 as stated: every candidate's line is itself a keyword hit line.
C5_AsStated ==
    Done =>
        \A c \in Range(Generated) :
            \E j \in 1..Len(lines) : IsHit(j) /\ lines[j] = c.line

\* C5 amended: every candidate is built from the amount found on its own line,
\* which is a line handed to add_candidate (a hit line or the line after a tier-1
\* or tier-2 hit); a line handed over without an amount yields no candidate.
C5_AmountFromOwnLine ==
    pc \in {"tier2", "tier3", "pick", "done"} =>
        /\ \A c \in Range(candidates) :
             /\ HasAmount(c.line)
             /\ c.raw_amount = AMOUNT_RE_search(c.line).raw
             /\ c.amount = de_amount_to_float(c.raw_amount)
             /\ \E j \in Offered : lines[j] = c.line
        /\ \A j \in 1..Len(lines) :
             ~HasAmount(lines[j]) => \A c \in Range(candidates) : c.line # lines[j]

\* C5 witness: a hit line without an amount yields no candidate of its own while
\* the line after it does.
C5_Witness ==
    /\ Done
    /\ \E j \in 1..Len(lines) :
         /\ IsHit1(j)
         /\ ~HasAmount(lines[j])
         /\ j + 1 <= Len(lines)
         /\ ~IsHit(j + 1)
         /\ \E c \in Range(candidates) : c.line = lines[j + 1]

\* pairs (a, b) of keyword lines: b is a with another amount and " EUR" appended,
\* and a has no currency marker of its own
EurPairs == {<<L_Netto, L_NettoEur>>, <<L_UebAmt, L_UebAmtEur>>}

\* the tiers in which line j is a hit
HitTiers(j) ==
    (IF IsHit1(j) THEN {1} ELSE {}) \cup (IF IsHit2(j) THEN {2} ELSE {})
        \cup (IF IsHit3(j) THEN {3} ELSE {})

\* lines a and b both occur and every candidate comes from one of them
OnlyCandidates(a, b) ==
    /\ a \in Range(lines)
    /\ b \in Range(lines)
    /\ \A c \in Range(Generated) : c.line \in {a, b}

\* the line with the currency marker wins with a strictly higher score
MarkerLineWins(a, b) ==
    /\ Returned
    /\ result.matched_line = b
    /\ result.raw_amount = AMOUNT_RE_search(b).raw
    /\ \A c \in Range(Generated) : c.line = a => c.score < candidates[1].score

\* C6 as stated: of two keyword lines that differ in the amount and in an appended
\* "EUR", being the only candidates, the one with "EUR" is returned with the
\* strictly higher score, whatever the order and the amounts.
C6_AsStated ==
    Done =>
        \A pr \in EurPairs :
            OnlyCandidates(pr[1], pr[2]) => MarkerLineWins(pr[1], pr[2])

\* C6 amended: this holds when the line without "EUR" carries no currency marker,
\* the two lines are the only keyword hit lines and the only sources of
\* candidates, and both are hits of the same tiers (both inside or both outside
\* the window of a "zahlungen" line).
C6_MarkerWinsInSameTiers ==
    Done =>
        \A pr \in EurPairs :
            ( /\ OnlyCandidates(pr[1], pr[2])
              /\ ~HasCurrency(normalize(pr[1]), pr[1])
              /\ \A j \in 1..Len(lines) : IsHit(j) => lines[j] \in {pr[1], pr[2]}
              /\ \A i, j \in 1..Len(lines) :
                    (IsHit(i) /\ IsHit(j)) => HitTiers(i) = HitTiers(j) )
            => MarkerLineWins(pr[1], pr[2])

\* C6 witness: "Netto 99,00" before "Netto 12,50 EUR": the smaller, later amount
\* is returned because of its currency marker.
C6_Witness ==
    /\ Returned
    /\ lines = <<L_Netto, L_NettoEur>>
    /\ result.amount = 1250
    /\ candidates[1].score = TIER2_BASE + TIER2_BONUS

\* C7: a returned Payout has a non-negative amount equal to the conversion of
\* raw_amount, raw_amount is a string of the amount grammar and a substring of
\* matched_line, matched_line is a (trimmed, not normalized) line of the input,
\* and file is empty.
C7_PayoutWellFormed ==
    Returned =>
        /\ result.amount >= 0
        /\ result.amount = de_amount_to_float(result.raw_amount)
        /\ IsAmountToken(result.raw_amount)
        /\ Contains(result.matched_line, result.raw_amount)
        /\ \E k \in 1..Len(text) : result.matched_line = Strip(text[k])
        /\ result.file = <<>>

\* C7 witness: the returned line is an input line that had surrounding blanks and
\* upper-case letters, returned trimmed and not lower-cased.
C7_Witness ==
    /\ Returned
    /\ result.matched_line = Strip(L_Gehalt)
    /\ result.matched_line # L_Gehalt
    /\ result.matched_line # normalize(result.matched_line)
    /\ result.amount = 300000

(***************************************************************************)
(* C8..C10: the amount grammar, on single tokens                           *)
(***************************************************************************)
AmountDone == pc = "amount_done"

AllDigits(s, from, to) == \A k \in from..to : IsDigitAt(s, k)

\* digits, a "." followed by one or two digits only, then ",dd": a thousands
\* group that is not three digits long
MalformedGrouping(s) ==
    \E p \in 2..Len(s), q \in 1..Len(s) :
        /\ AllDigits(s, 1, p - 1)
        /\ s[p] = "."
        /\ q - p \in {2, 3}
        /\ AllDigits(s, p + 1, q - 1)
        /\ DecimalsAt(s, q)
        /\ q + 2 = Len(s)

\* C8: a token whose "." group before the decimal comma is not exactly three
\* digits long, such as "12.3,45", yields no match at all.
C8_StrictGrouping ==
    (AmountDone /\ MalformedGrouping(lines[1])) => candidates = <<>>

\* an English-locale decimal: digits, optional ",ddd" groups, ".", digits
EnglishDecimal(s) ==
    \E p \in 2..(Len(s) - 1) :
        /\ s[p] = "."
        /\ AllDigits(s, p + 1, Len(s))
        /\ IsDigitAt(s, 1)
        /\ \A k \in 1..(p - 1) :
             \/ IsDigitAt(s, k)
             \/ s[k] = "," /\ k > 1 /\ IsDigitAt(s, k - 1) /\ k + 3 < p + 1
                  /\ AllDigits(s, k + 1, k + 3)
                  /\ (k + 4 = p \/ s[k + 4] = ",")

\* C9: a line whose only numeric token is an English-locale decimal, with or
\* without "," thousands separators, yields no match.
C9_NoEnglishDecimal ==
    (AmountDone /\ EnglishDecimal(lines[1])) => candidates = <<>>

\* digits and "." only, then "," and a single digit at the end
OneDecimalDigit(s) ==
    /\ Len(s) >= 3
    /\ IsDigitAt(s, Len(s))
    /\ s[Len(s) - 1] = ","
    /\ \A k \in 1..(Len(s) - 2) : IsDigitAt(s, k) \/ s[k] = "."

\* C10: a plain integer and a token with a single digit after the comma yield no
\* match; every match ends in "," and exactly two digits, so a line without a
\* "," followed by two digits yields none.
C10_TwoDecimalsRequired ==
    AmountDone =>
        /\ AllDigits(lines[1], 1, Len(lines[1])) => candidates = <<>>
        /\ OneDecimalDigit(lines[1]) => candidates = <<>>
        /\ (\A p \in 1..Len(lines[1]) : ~DecimalsAt(lines[1], p)) => candidates = <<>>
        /\ \A c \in Range(candidates) :
             /\ DecimalsAt(c.raw_amount, Len(c.raw_amount) - 2)
             /\ \A k \in 1..(Len(c.raw_amount) - 3) : c.raw_amount[k] # ","

\* C10 witness: "1024,9" was searched and gave no candidate.
C10_Witness ==
    /\ AmountDone
    /\ lines[1] = T_1024_9
    /\ candidates = <<>>

(***************************************************************************)
(* C11, C12: the first match and its conversion                            *)
(***************************************************************************)
\* the positions of ln at which some string of the amount grammar starts
TokenStarts(ln) ==
    {p \in 1..Len(ln) : \E e \in p..Len(ln) : IsAmountToken(SubSeq(ln, p, e))}

\* C11: the candidate built from a line uses the match that starts leftmost in
\* the line, whichever match is longer, larger or closer to the keyword; a line
\* yields a candidate exactly when some match exists.
C11_LeftmostMatch ==
    AmountDone =>
        /\ candidates # <<>> <=> TokenStarts(lines[1]) # {}
        /\ \A c \in Range(candidates) :
             LET p == CHOOSE p \in TokenStarts(c.line) :
                        \A q \in TokenStarts(c.line) : p <= q
             IN  /\ IsAmountToken(c.raw_amount)
                 /\ c.raw_amount = SubSeq(c.line, p, p + Len(c.raw_amount) - 1)

\* C11 witness: "12,50 1.024,09" gives 12,50 and "12,50 Netto 99,00" gives 12,50.
C11_Witness ==
    /\ AmountDone
    /\ lines[1] \in {T_two_amounts, T_amount_before_keyword}
    /\ Cardinality(TokenStarts(lines[1])) > 1
    /\ candidates # <<>>
    /\ candidates[1].raw_amount = A_12_50

\* the digits of s, in order
RECURSIVE OnlyDigits(_)
OnlyDigits(s) ==
    IF s = <<>> THEN <<>>
    ELSE (IF Head(s) \in Digits THEN <<Head(s)>> ELSE <<>>) \o OnlyDigits(Tail(s))

\* C12: every string of the amount grammar converts: the string handed to float()
\* is a float literal, and the value's count of cents is the integer formed by the
\* digits of the string ("1.024,09" -> 1024.09, "12,50" -> 12.50, "0,00" -> 0.0).
C12_ConversionExact ==
    AmountDone =>
        /\ IsAmountToken(lines[1]) =>
             /\ Len(candidates) = 1
             /\ candidates[1].raw_amount = lines[1]
        /\ \A c \in Range(candidates) :
             /\ IsFloatLiteral(Replace(Replace(c.raw_amount, ".", <<>>), ",", <<".">>))
             /\ c.amount = DigitsToNat(OnlyDigits(c.raw_amount))
        /\ lines[1] = A_1_024_09 => candidates[1].amount = 102409
        /\ lines[1] = A_12_50 => candidates[1].amount = 1250
        /\ lines[1] = A_0_00 => candidates[1].amount = 0

\* C12 witness: "1.024,09" was converted to 1024.09.
C12_Witness ==
    /\ AmountDone
    /\ lines[1] = A_1_024_09
    /\ candidates # <<>>
    /\ candidates[1].amount = 102409

(***************************************************************************)
(* C13 - C18: pick_latest_pdf                                              *)
(***************************************************************************)
PickDone == pc = "picked"
Entries == Range(folder.entries)

\* the name ends in ".pdf", in any letter case, after at least one character
HasPdfExtension(name) ==
    /\ Len(name) > 4
    /\ Lower(SubSeq(name, Len(name) - 3, Len(name))) = DOT_PDF

\* positions of the tokens "20dd" + month, the month read as a number in 1..12
TokenAt(name, p) ==
    /\ p + 5 <= Len(name)
    /\ SubSeq(name, p, p + 1) = <<"2", "0">>
    /\ \A k \in (p + 2)..(p + 5) : name[k] \in Digits
    /\ DigitsToNat(SubSeq(name, p + 4, p + 5)) \in 1..12

TokenPositions(name) == {p \in 1..Len(name) : TokenAt(name, p)}
FirstToken(name) == CHOOSE p \in TokenPositions(name) : \A q \in TokenPositions(name) : p <= q

\* the year-month key of a name as one number, yyyymm
KeyOf(name) == DigitsToNat(SubSeq(name, FirstToken(name), FirstToken(name) + 5))

\* the lowercased name starts with a prefix as it was supplied, or no prefix was
StartsWithAllowed(name) ==
    \/ allowed_prefixes = <<>>
    \/ \E k \in 1..Len(allowed_prefixes) :
         /\ Len(allowed_prefixes[k]) <= Len(name)
         /\ Lower(SubSeq(name, 1, Len(allowed_prefixes[k]))) = allowed_prefixes[k]

\* the name starts with a prefix when letter case is ignored on both sides
StartsWithAllowedAnyCase(name) ==
    \/ allowed_prefixes = <<>>
    \/ \E k \in 1..Len(allowed_prefixes) :
         /\ Len(allowed_prefixes[k]) <= Len(name)
         /\ Lower(SubSeq(name, 1, Len(allowed_prefixes[k]))) = Lower(allowed_prefixes[k])

Eligible(e) ==
    /\ e.is_file
    /\ HasPdfExtension(e.name)
    /\ StartsWithAllowed(e.name)
    /\ TokenPositions(e.name) # {}

ExampleFolder == {File(N_nachweis_202401), File(N_nachweis_202512), File(N_sonstiges_202601)}

\* C13: a returned file is an eligible entry of the folder (regular file, .pdf in
\* any case, lowercased name starting with an allowed prefix, valid year-month
\* token) and no eligible entry has a later year-month; over the three example
\* files under the default prefixes that is entgeltnachweis_202512.pdf.
C13_LatestEligible ==
    PickDone =>
        /\ picked.kind = "path" =>
             /\ picked \in Entries
             /\ Eligible(picked)
             /\ \A e \in Entries : Eligible(e) => KeyOf(e.name) <= KeyOf(picked.name)
        /\ (Entries = ExampleFolder /\ allowed_prefixes = DefaultPrefixes) =>
             picked = File(N_nachweis_202512)

C13_Witness ==
    /\ PickDone
    /\ Entries = ExampleFolder
    /\ allowed_prefixes = DefaultPrefixes
    /\ picked = File(N_nachweis_202512)
    /\ KeyOf(N_sonstiges_202601) > KeyOf(picked.name)

\* C14: every regular .pdf file with a year-month token whose name starts with
\* an allowed prefix, letter case ignored in the name and in the prefix, is
\* considered: a file is returned, and none with an earlier year-month.
C14_PrefixAnyCase ==
    (PickDone /\ FolderOk(folder)) =>
        \A e \in Entries :
            ( /\ e.is_file
              /\ HasPdfExtension(e.name)
              /\ TokenPositions(e.name) # {}
              /\ StartsWithAllowedAnyCase(e.name) ) =>
                /\ picked.kind = "path"
                /\ KeyOf(e.name) <= KeyOf(picked.name)

\* C15: FileNotFoundError is raised exactly for a folder that does not exist or
\* is not a directory, with no entry examined and nothing returned.
C15_NotFoundIffNoDirectory ==
    PickDone =>
        /\ picked = FileNotFoundError <=> (~folder.exists \/ ~folder.is_dir)
        /\ picked = FileNotFoundError => (scan = 0 /\ best_path = None /\ best_dt = None)
        /\ (~folder.exists \/ ~folder.is_dir) => picked # None

C15_Witness ==
    /\ PickDone
    /\ folder = NotADirectory
    /\ picked = FileNotFoundError

\* C16: over an existing directory the result is none exactly when no entry is
\* eligible, and nothing is raised.
C16_NoneIffNothingEligible ==
    (PickDone /\ folder.exists /\ folder.is_dir) =>
        /\ picked.kind # "raise"
        /\ picked = None <=> (\A e \in Entries : ~Eligible(e))

C16_Witness ==
    /\ PickDone
    /\ allowed_prefixes = DefaultPrefixes
    /\ Entries = {File(N_sonstiges_202601), File(N_nachweis_202513), Dir(N_nachweis_202612)}
    /\ picked = None

\* C18: the running best is the first of the entries examined so far that has
\* the greatest year-month among the eligible ones; so is the file returned.
C18_FirstOfEqualKeysWins ==
    (pc \in {"iterdir", "picked"} /\ best_path # None) =>
        \E i \in 1..scan :
            /\ folder.entries[i] = best_path
            /\ \A j \in 1..scan :
                 (Eligible(folder.entries[j]) /\ KeyOf(folder.entries[j].name) = KeyOf(best_path.name))
                     => i <= j
            /\ PickDone => picked = best_path

C18_Witness ==
    /\ PickDone
    /\ Len(folder.entries) > 1
    /\ picked = folder.entries[1]
    /\ \E j \in 2..Len(folder.entries) :
         /\ Eligible(folder.entries[j])
         /\ KeyOf(folder.entries[j].name) = KeyOf(picked.name)

\* C17 (one PDF, no prefix filter): the file is selected exactly when its name
\* holds a token "20dd" + month 01..12, and the key is that of the first one.
C17_KeyIsFirstToken ==
    (PickDone /\ FolderOk(folder)) =>
        LET name == folder.entries[1].name
        IN  IF TokenPositions(name) = {}
            THEN picked = None /\ best_dt = None
            ELSE /\ picked = folder.entries[1]
                 /\ best_dt.year * 100 + best_dt.month = KeyOf(name)
                 /\ best_dt.year \in 2000..2099
                 /\ best_dt.month \in 1..12

C17_Witness ==
    /\ PickDone
    /\ FolderOk(folder)
    /\ folder.entries[1].name = N_202403_202611 \o DOT_PDF
    /\ Cardinality(TokenPositions(folder.entries[1].name)) > 1
    /\ best_dt = [kind |-> "datetime", year |-> 2024, month |-> 3]

(***************************************************************************)
(* C19, C20: refresh_balance_from_pdf                                      *)
(***************************************************************************)
Refreshed == pc = "refreshed"
RefreshOk == Refreshed /\ outcome.ok
RefreshFailed == Refreshed /\ ~outcome.ok

\* the value a save file holds under key k, if it holds any
Persisted(s, k) ==
    IF s.kind = "json" /\ k \in DOMAIN s.data
    THEN [present |-> TRUE, value |-> s.data[k]]
    ELSE [present |-> FALSE, value |-> <<>>]

\* C19: the raw_amount of the located Payout is stored verbatim as Balance, and
\* the balance parsing of Calculations reads the Payout's amount back from it.
C19_BalanceRoundTrip ==
    /\ (pc \in {"r_store", "r_setting"} \/ RefreshOk) =>
          Calculations_gehalt([Balance |-> result.raw_amount]) = Float(result.amount)
    /\ (pc = "r_setting" \/ RefreshOk) =>
          /\ save.data.Balance = result.raw_amount
          /\ Calculations_gehalt(lastSave(save)) = Float(result.amount)

C19_Witness ==
    /\ RefreshOk
    /\ save0.data.Balance = ZERO
    /\ result.raw_amount = A_1_200_00
    /\ save.data.Balance = A_1_200_00
    /\ Calculations_gehalt(lastSave(save)) = Float(120000)

\* C20 as stated: every failure leaves the persisted Balance and lastPayCheck
\* as they were before the call, and writes no default.
C20_AsStated ==
    RefreshFailed =>
        /\ Persisted(save, "Balance") = Persisted(save0, "Balance")
        /\ Persisted(save, "lastPayCheck") = Persisted(save0, "lastPayCheck")

\* C20: the three failure messages differ and name their cause; a failure leaves
\* a readable save.json exactly as it was, and finds a missing or unreadable one
\* replaced by the defaults.
C20_FailuresKeepReadableSave ==
    /\ MSG_NO_FILE # MSG_NO_PAYOUT
    /\ MSG_NO_FOLDER # MSG_NO_FILE
    /\ MSG_NO_FOLDER # MSG_NO_PAYOUT
    /\ Refreshed =>
          /\ ~folder.exists => outcome = Failure(MSG_NO_FOLDER)
          /\ picked = None => outcome = Failure(MSG_NO_FILE)
          /\ result = None => outcome = Failure(MSG_NO_PAYOUT)
          /\ outcome.ok => (picked.kind = "path" /\ result.kind = "payout")
    /\ RefreshFailed =>
          /\ save0.kind = "json" => save = save0
          /\ save0.kind # "json" => save = Saved(DEFAULT_SAVE)

C20_Witness ==
    /\ RefreshFailed
    /\ save0 = Saved(UsedSave(PATH_payslips))
    /\ picked = File(N_nachweis_202512)
    /\ result = None
    /\ outcome.message = MSG_NO_PAYOUT
    /\ save.data.Balance = A_1_200_00
    /\ save.data.lastPayCheck = A_3_000_00

(***************************************************************************)
(* C21: normalize                                                          *)
(***************************************************************************)
Rewritten == {"u-uml", "o-uml", "a-uml", "eszett"}

\* no upper-case letter and none of the rewritten characters
IsNormalForm(s) ==
    \A k \in 1..Len(s) : s[k] \notin Rewritten /\ s[k] \notin Range(UpperChars)

\* C21: normalize(normalize(s)) = normalize(s); the first result already has
\* no upper-case letter and no "u-uml", "o-uml", "a-uml", "eszett" left.
C21_NormalizeIdempotent ==
    /\ pc \in {"normalized", "renormalized"} => IsNormalForm(norm[1])
    /\ pc = "renormalized" => norm[2] = norm[1]

C21_Witness ==
    /\ pc = "renormalized"
    /\ text[1] = <<"U-uml", "eszett", "S">>
    /\ norm[1] = <<"u", "e", "s", "s", "s">>
    /\ norm[2] = norm[1]

(***************************************************************************)
(* C22: the tier-1 window                                                  *)
(***************************************************************************)
AfterTier1 == pc \in {"tier2", "tier3", "pick", "done"}

TransferLine(j) == IsTransfer(norm[j], lines[j])

\* some "zahlungen" line i has i <= j < i + 20
InWindow(j) ==
    \E i \in 1..Len(lines) : IsZahlungen(norm[i]) /\ i <= j /\ j < i + 20

\* line j got the score of a tier-1 hit / of the line after a tier-1 hit
HitScored(j) == \E c \in Range(candidates) : c.line = lines[j] /\ c.score \in {100, 120}
NextScored(j) == \E c \in Range(candidates) : c.line = lines[j] /\ c.score \in {95, 115}

\* C22 as stated: a transfer line gets a tier-1 score exactly inside a window.
C22_AsStated ==
    AfterTier1 =>
        \A j \in 1..Len(lines) :
            TransferLine(j) => ((HitScored(j) \/ NextScored(j)) <=> InWindow(j))

\* C22: a transfer line (each one carrying an amount) is scored as a tier-1 hit
\* exactly when it lies in the window of some "zahlungen" line; it gets the
\* next-line score exactly when the line before it is such a hit.
C22_HitIffInWindow ==
    AfterTier1 =>
        \A j \in 1..Len(lines) :
            TransferLine(j) =>
                /\ HitScored(j) <=> InWindow(j)
                /\ NextScored(j) <=> (j > 1 /\ TransferLine(j - 1) /\ InWindow(j - 1))

C22_Witness ==
    /\ AfterTier1
    /\ \E i \in 1..Len(lines) :
          /\ i + 20 <= Len(lines)
          /\ IsZahlungen(norm[i])
          /\ \A k \in 1..Len(lines) : IsZahlungen(norm[k]) => k = i
          /\ TransferLine(i + 19) /\ HitScored(i + 19)
          /\ TransferLine(i + 20) /\ ~HitScored(i + 20) /\ NextScored(i + 20)

(***************************************************************************)
(* C23: the score of the line after a hit                                  *)
(***************************************************************************)
AfterTier2 == pc \in {"tier3", "pick", "done"}

\* line j carries a currency marker
Marker(j) == Contains(norm[j], <<"e", "u", "r">>) \/ Contains(lines[j], <<"euro">>)

\* the score of the line after hit line j: base, plus the bonus if the hit line
\* itself has a marker, minus 5
After1(j) == (IF Marker(j) THEN 120 ELSE 100) - 5
After2(j) == (IF Marker(j) THEN 90 ELSE 80) - 5

ScoredAs(ln, score) == \E c \in Range(candidates) : c.line = ln /\ c.score = score

\* C23: every candidate scored 95 or 115 (75 or 85) is the line after a tier-1
\* (tier-2) hit whose own score was 5 more, and every amount-bearing line after
\* such a hit is scored that way, whatever marker that following line has.
C23_NextLineScoreFromHitLine ==
    AfterTier2 =>
        /\ \A c \in Range(candidates) :
              /\ c.score \in {100, 120, 95, 115, 80, 90, 75, 85, 40, 50}
              /\ c.score \in {95, 115} =>
                    \E j \in 1..(Len(lines) - 1) :
                        IsHit1(j) /\ lines[j + 1] = c.line /\ c.score = After1(j)
              /\ c.score \in {75, 85} =>
                    \E j \in 1..(Len(lines) - 1) :
                        IsHit2(j) /\ lines[j + 1] = c.line /\ c.score = After2(j)
        /\ \A j \in 1..(Len(lines) - 1) :
              HasAmount(lines[j + 1]) =>
                  /\ IsHit1(j) => ScoredAs(lines[j + 1], After1(j))
                  /\ IsHit2(j) => ScoredAs(lines[j + 1], After2(j))

\* "Zahlungen", "Ueberweisung", "1.024,09 EUR": the marker of the third line
\* gives no bonus, its score is 95
C23_Witness ==
    /\ AfterTier2
    /\ lines = <<L_Zahl, L_Ueb, L_AmtEur>>
    /\ ~Marker(2) /\ Marker(3)
    /\ ScoredAs(L_AmtEur, 95)
    /\ ~ScoredAs(L_AmtEur, 115)

(***************************************************************************)
(* C24: the running best of the folder scan                                *)
(***************************************************************************)
Scanning == pc = "iterdir"
Seen == {folder.entries[k] : k \in 1..scan}
NextEntry == folder.entries[scan + 1]

\* the running best is none while no eligible entry was seen, and afterwards an
\* eligible entry seen with the greatest key, best_dt being that key
BestIsMaxOfSeen ==
    Scanning =>
        /\ best_path = None <=> (\A e \in Seen : ~Eligible(e))
        /\ best_path = None <=> best_dt = None
        /\ best_path # None =>
              /\ best_path \in Seen
              /\ Eligible(best_path)
              /\ best_dt.year * 100 + best_dt.month = KeyOf(best_path.name)
              /\ \A e \in Seen : Eligible(e) => KeyOf(e.name) <= KeyOf(best_path.name)

\* a step of the scan replaces the best exactly by an eligible entry that is the
\* first one or has a strictly greater key, and else leaves the pair as it is
BestMovesForward ==
    (Scanning /\ scan' = scan + 1) =>
        LET greater == /\ Eligible(NextEntry)
                       /\ (best_path = None \/ KeyOf(NextEntry.name) > KeyOf(best_path.name))
        IN  /\ greater => best_path' = NextEntry
            /\ ~greater => (best_path' = best_path /\ best_dt' = best_dt)

\* C24: at every step of the scan the best-so-far has the maximum key of the
\* eligible files seen, is replaced only by a file with a strictly greater key,
\* and is left unchanged by ineligible entries.
C24_BestSoFarMonotone == []BestIsMaxOfSeen /\ [][BestMovesForward]_vars

C24_Witness ==
    /\ Scanning
    /\ Len(folder.entries) = 3
    /\ scan = 2
    /\ Eligible(folder.entries[1])
    /\ best_path = folder.entries[2]
    /\ KeyOf(folder.entries[2].name) > KeyOf(folder.entries[1].name)
    /\ ~Eligible(folder.entries[3])

(***************************************************************************)
(* C25: what a successful refresh_balance_from_pdf writes and keeps        *)
(***************************************************************************)
KeptSettings == {"appearance_mode", "color_theme", "use_paychecks"}

\* C25: after a successful refresh the persisted Balance and lastPayCheck are
\* the located Payout's raw_amount, Settings.last_paycheck_file is the name of
\* the file pick_latest_pdf selected, which is also the Payout's file, and the
\* persisted Expenses, Debts and path are the ones from before the call.
C25_RefreshWritesAndKeeps ==
    RefreshOk =>
        /\ save.kind = "json"
        /\ result.kind = "payout"
        /\ save.data.Balance = result.raw_amount
        /\ save.data.lastPayCheck = result.raw_amount
        /\ picked = pick_latest_pdf(FolderAt(Strip(save0.data.path)), DefaultPrefixes)
        /\ result.file = picked.name
        /\ save.data.Settings.last_paycheck_file = picked.name
        /\ \A k \in {"Expenses", "Debts", "path"} : Persisted(save, k) = Persisted(save0, k)
        /\ \A k \in KeptSettings : save.data.Settings[k] = save0.data.Settings[k]

C25_Witness ==
    /\ RefreshOk
    /\ save0 = Saved(UsedSave(PATH_payslips_blank))
    /\ picked = File(N_nachweis_202512)
    /\ result.raw_amount \notin {save0.data.Balance, save0.data.lastPayCheck}
    /\ save.data.Balance = result.raw_amount
    /\ save.data.lastPayCheck = result.raw_amount
    /\ save.data.Settings.last_paycheck_file = N_nachweis_202512
    /\ save.data.Expenses = E_rent
    /\ save.data.Debts = D_loan
    /\ save.data.path = PATH_payslips_blank

(***************************************************************************)
(* C26: what save_data keeps and what it overwrites                        *)
(***************************************************************************)
Called == pc = "save_data" /\ calls # <<>>
LastCall == calls[Len(calls)]

HoldsLastCall ==
    /\ save.kind = "json"
    /\ save.data.Balance = LastCall.gehalt
    /\ save.data.lastPayCheck = LastCall.LastEGA
    /\ save.data.Expenses = LastCall.ausgaben
    /\ save.data.Debts = LastCall.Schulden

\* C26 as stated: after the calls the file's Settings and path are the ones it
\* held before them, and the other four values are the last call's arguments.
C26_AsStated ==
    Called =>
        /\ Persisted(save, "Settings") = Persisted(save0, "Settings")
        /\ Persisted(save, "path") = Persisted(save0, "path")
        /\ HoldsLastCall

\* C26: after any sequence of save_data calls on a readable save file, the file
\* holds the path it held before (none if it held none), the Settings it held
\* before or the two fallback settings if it held none, the four arguments of
\* the last call, and no other key.
C26_KeepsSettingsAndPath ==
    Called =>
        /\ Persisted(save, "path") = Persisted(save0, "path")
        /\ save.data.Settings = lastSave(save0).Settings
        /\ "Settings" \in DOMAIN save0.data => save.data.Settings = save0.data.Settings
        /\ "Settings" \notin DOMAIN save0.data => save.data.Settings = LEGACY_SETTINGS
        /\ HoldsLastCall
        /\ DOMAIN save.data \subseteq {"Balance", "Expenses", "lastPayCheck", "Debts", "Settings", "path"}

C26_Witness ==
    /\ Called
    /\ Len(calls) = 2
    /\ calls[1].gehalt # calls[2].gehalt
    /\ calls[1].ausgaben # calls[2].ausgaben
    /\ save0 = Saved(UsedSave(PATH_payslips))
    /\ save.data.Settings = save0.data.Settings
    /\ save.data.path = PATH_payslips
    /\ save.data.Balance = calls[2].gehalt
    /\ save.data.Expenses = calls[2].ausgaben

(***************************************************************************)
(* C27: pick_latest_pdf and the order in which iterdir yields the entries  *)
(***************************************************************************)
\* the same entries in every order
Reorderings ==
    LET n == Len(folder.entries)
    IN  {[i \in 1..n |-> folder.entries[p[i]]] : p \in Permutations(1..n)}

DistinctKeys ==
    \A a, b \in Entries :
        (Eligible(a) /\ Eligible(b) /\ a # b) => KeyOf(a.name) # KeyOf(b.name)

SharedMaximumKey ==
    \E a, b \in Entries :
        /\ a # b
        /\ Eligible(a)
        /\ Eligible(b)
        /\ KeyOf(a.name) = KeyOf(b.name)
        /\ \A c \in Entries : Eligible(c) => KeyOf(c.name) <= KeyOf(a.name)

OrderMatters == \E q \in Reorderings : pick_latest_pdf(Directory(q), allowed_prefixes) # picked

\* C27: with pairwise distinct keys among the eligible files the returned file
\* is the same for every order of the entries, and the orders give different
\* files exactly when two eligible files share the maximum key.
C27_OrderIndependent ==
    (PickDone /\ FolderOk(folder)) =>
        /\ picked = pick_latest_pdf(folder, allowed_prefixes)
        /\ DistinctKeys => ~OrderMatters
        /\ OrderMatters <=> SharedMaximumKey

C27_Witness ==
    /\ PickDone
    /\ allowed_prefixes = NoPrefixes
    /\ folder.entries = <<File(N_sonstiges_202601), File(N_Abrechnung_202512), File(N_nachweis_202512)>>
    /\ ~DistinctKeys
    /\ ~SharedMaximumKey
    /\ picked = File(N_sonstiges_202601)
    /\ pick_latest_pdf(Directory(<<File(N_nachweis_202512), File(N_Abrechnung_202512),
                                   File(N_sonstiges_202601)>>), allowed_prefixes) = picked

====
